---------------------------- MODULE Spec2Model ----------------------------
(***************************************************************************)
(* Model of the Sudoku engine of ncurses-sudoku: the constraint checker    *)
(* and backtracking solver (src/src/solver.c), the puzzle generator        *)
(* (src/src/generator.c) and the game layer (src/src/game.c,               *)
(* src/src/input.c).                                                       *)
(*                                                                         *)
(* Board scale.  Every loop of the source runs over GRID_SIZE and          *)
(* BOX_SIZE (or the literal 9 that stands for GRID_SIZE).  The source sets *)
(* GRID_SIZE 9 and BOX_SIZE 3; the model instantiates the same code at     *)
(* GRID_SIZE 4 and BOX_SIZE 2, the smallest board with rows, columns and   *)
(* boxes, so that the searches can be explored exhaustively.  Everything   *)
(* checked here is checked on that board.                                  *)
(***************************************************************************)
EXTENDS Integers, Sequences, FiniteSets, TLC

GRID_SIZE == 4

BOX_SIZE == 2

Idx == 0 .. (GRID_SIZE - 1)

Digits == 1 .. GRID_SIZE

Values == 0 .. GRID_SIZE

\* int grid[9][9]: grid[row][col], 0 = empty
GridT == [Idx -> [Idx -> Values]]

EmptyGrid == [x \in Idx |-> [y \in Idx |-> 0]]

(***************************************************************************)
(* solver.c                                                                *)
(***************************************************************************)

\* Row-major position of a cell, the order of the nested for loops.
RowMajor(x, y) == x * GRID_SIZE + y

\* The nested for loops of find_empty_cell from row-major position k on.
RECURSIVE find_empty_from(_, _)
find_empty_from(grid, k) ==
    IF k >= GRID_SIZE * GRID_SIZE
    THEN [found |-> 0, row |-> 0, col |-> 0]
    ELSE IF grid[k \div GRID_SIZE][k % GRID_SIZE] = 0
         THEN [found |-> 1, row |-> k \div GRID_SIZE, col |-> k % GRID_SIZE]
         ELSE find_empty_from(grid, k + 1)

\* row and col are left at the caller's 0 when no empty cell is found.
find_empty_cell(grid) == find_empty_from(grid, RowMajor(0, 0))

\* Mutation of is_valid_placement: the scans do not skip the target cell.
is_valid_placement_noskip(grid, row, col, num) ==
    LET start_row == (row \div BOX_SIZE) * BOX_SIZE
        start_col == (col \div BOX_SIZE) * BOX_SIZE
    IN  IF \E x \in Idx : grid[x][col] = num THEN 0
        ELSE IF \E y \in Idx : grid[row][y] = num THEN 0
        ELSE IF \E x \in start_row .. (start_row + BOX_SIZE - 1) :
                  \E y \in start_col .. (start_col + BOX_SIZE - 1) :
                      grid[x][y] = num THEN 0
        ELSE 1

is_valid_placement(grid, row, col, num) ==
    LET start_row == (row \div BOX_SIZE) * BOX_SIZE
        start_col == (col \div BOX_SIZE) * BOX_SIZE
    IN  IF \E x \in Idx : x # row /\ grid[x][col] = num THEN 0
        ELSE IF \E y \in Idx : y # col /\ grid[row][y] = num THEN 0
        ELSE IF \E x \in start_row .. (start_row + BOX_SIZE - 1) :
                  \E y \in start_col .. (start_col + BOX_SIZE - 1) :
                      (x # row \/ y # col) /\ grid[x][y] = num THEN 0
        ELSE 1

\* Mutation of is_grid_valid: the 3x3 box scan is left out.
is_grid_valid_nobox(grid) ==
    IF \E x \in Idx : \E y \in Idx :
          /\ grid[x][y] # 0
          /\ \/ \E col_idx \in Idx : col_idx # y /\ grid[x][col_idx] = grid[x][y]
             \/ \E row_idx \in Idx : row_idx # x /\ grid[row_idx][y] = grid[x][y]
    THEN 0 ELSE 1

is_grid_valid(grid) ==
    IF \E x \in Idx : \E y \in Idx :
          /\ grid[x][y] # 0
          /\ \/ \E col_idx \in Idx : col_idx # y /\ grid[x][col_idx] = grid[x][y]
             \/ \E row_idx \in Idx : row_idx # x /\ grid[row_idx][y] = grid[x][y]
             \/ LET start_row == (x \div BOX_SIZE) * BOX_SIZE
                    start_col == (y \div BOX_SIZE) * BOX_SIZE
                IN  \E box_row \in start_row .. (start_row + BOX_SIZE - 1) :
                      \E box_col \in start_col .. (start_col + BOX_SIZE - 1) :
                          /\ (box_row # x \/ box_col # y)
                          /\ grid[box_row][box_col] = grid[x][y]
    THEN 0 ELSE 1

is_grid_complete(grid) ==
    IF \E row \in Idx : \E col \in Idx : grid[row][col] = 0 THEN 0 ELSE 1

(***************************************************************************)
(* solve_grid.  The result carries the return value, the grid as the call  *)
(* leaves it (the argument is modified in place) and the deepest recursion *)
(* level the call reached (this call counted as level 1).                  *)
(***************************************************************************)
Max(a, b) == IF a >= b THEN a ELSE b

RECURSIVE solve_grid(_)
RECURSIVE solve_grid_loop(_, _, _, _, _)

\* Mutation of solve_grid_loop: the loop stops one candidate short.
RECURSIVE solve_grid_loop_short(_, _, _, _, _)
solve_grid_loop_short(grid, row, col, i, depth) ==
    IF i >= GRID_SIZE - 1
    THEN [ret |-> 0, grid |-> grid, depth |-> depth]
    ELSE LET guess == i + 1
         IN  IF is_valid_placement(grid, row, col, guess) = 1
             THEN LET r == solve_grid([grid EXCEPT ![row][col] = guess])
                  IN  IF r.ret = 1
                      THEN [ret |-> 1, grid |-> r.grid, depth |-> Max(depth, r.depth + 1)]
                      ELSE solve_grid_loop_short([r.grid EXCEPT ![row][col] = 0],
                                                 row, col, i + 1, Max(depth, r.depth + 1))
             ELSE solve_grid_loop_short(grid, row, col, i + 1, depth)

\* Mutation of solve_grid_loop: the backtrack clears the whole row.
RECURSIVE solve_grid_loop_clearrow(_, _, _, _, _)
solve_grid_loop_clearrow(grid, row, col, i, depth) ==
    IF i >= GRID_SIZE
    THEN [ret |-> 0, grid |-> grid, depth |-> depth]
    ELSE LET guess == i + 1
         IN  IF is_valid_placement(grid, row, col, guess) = 1
             THEN LET r == solve_grid([grid EXCEPT ![row][col] = guess])
                  IN  IF r.ret = 1
                      THEN [ret |-> 1, grid |-> r.grid, depth |-> Max(depth, r.depth + 1)]
                      ELSE solve_grid_loop_clearrow([r.grid EXCEPT ![row] = [y \in Idx |-> 0]],
                                           row, col, i + 1, Max(depth, r.depth + 1))
             ELSE solve_grid_loop_clearrow(grid, row, col, i + 1, depth)

\* Mutation of solve_grid_loop: the candidate is placed without the rule check.
RECURSIVE solve_grid_loop_nocheck(_, _, _, _, _)
solve_grid_loop_nocheck(grid, row, col, i, depth) ==
    IF i >= GRID_SIZE
    THEN [ret |-> 0, grid |-> grid, depth |-> depth]
    ELSE LET guess == i + 1
         IN  IF guess > 0
             THEN LET r == solve_grid([grid EXCEPT ![row][col] = guess])
                  IN  IF r.ret = 1
                      THEN [ret |-> 1, grid |-> r.grid, depth |-> Max(depth, r.depth + 1)]
                      ELSE solve_grid_loop_nocheck([r.grid EXCEPT ![row][col] = 0],
                                           row, col, i + 1, Max(depth, r.depth + 1))
             ELSE solve_grid_loop_nocheck(grid, row, col, i + 1, depth)

\* Mutation of solve_grid_loop: the cell is not reset when backtracking.
RECURSIVE solve_grid_loop_noreset(_, _, _, _, _)
solve_grid_loop_noreset(grid, row, col, i, depth) ==
    IF i >= GRID_SIZE
    THEN [ret |-> 0, grid |-> grid, depth |-> depth]
    ELSE LET guess == i + 1
         IN  IF is_valid_placement(grid, row, col, guess) = 1
             THEN LET r == solve_grid([grid EXCEPT ![row][col] = guess])
                  IN  IF r.ret = 1
                      THEN [ret |-> 1, grid |-> r.grid, depth |-> Max(depth, r.depth + 1)]
                      ELSE solve_grid_loop_noreset(r.grid,
                                           row, col, i + 1, Max(depth, r.depth + 1))
             ELSE solve_grid_loop_noreset(grid, row, col, i + 1, depth)

\* The body of the for loop of solve_grid from candidate index i on.
solve_grid_loop(grid, row, col, i, depth) ==
    IF i >= GRID_SIZE
    THEN [ret |-> 0, grid |-> grid, depth |-> depth]
    ELSE LET guess == i + 1
         IN  IF is_valid_placement(grid, row, col, guess) = 1
             THEN LET r == solve_grid([grid EXCEPT ![row][col] = guess])
                  IN  IF r.ret = 1
                      THEN [ret |-> 1, grid |-> r.grid, depth |-> Max(depth, r.depth + 1)]
                      ELSE solve_grid_loop([r.grid EXCEPT ![row][col] = 0],
                                           row, col, i + 1, Max(depth, r.depth + 1))
             ELSE solve_grid_loop(grid, row, col, i + 1, depth)

solve_grid(grid) ==
    LET e == find_empty_cell(grid)
    IN  IF e.found = 0
        THEN [ret |-> 1, grid |-> grid, depth |-> 1]
        ELSE solve_grid_loop(grid, e.row, e.col, 0, 1)

(***************************************************************************)
(* count_solutions_helper.  The result carries the return value (1 = early *)
(* termination), the grid as the call leaves it and the counter.           *)
(***************************************************************************)
RECURSIVE count_solutions_helper(_, _)
RECURSIVE count_solutions_loop(_, _, _, _, _)

count_solutions_loop(grid, counter, row, col, i) ==
    IF i >= GRID_SIZE
    THEN [ret |-> 0, grid |-> grid, counter |-> counter]
    ELSE LET guess == i + 1
         IN  IF is_valid_placement(grid, row, col, guess) = 1
             THEN LET r == count_solutions_helper([grid EXCEPT ![row][col] = guess], counter)
                  IN  IF r.ret = 1
                      THEN r
                      ELSE count_solutions_loop([r.grid EXCEPT ![row][col] = 0],
                                                r.counter, row, col, i + 1)
             ELSE count_solutions_loop(grid, counter, row, col, i + 1)

\* Mutation of count_solutions_helper: the search stops at the third solution.
count_solutions_helper_three(grid, counter) ==
    LET e == find_empty_cell(grid)
    IN  IF e.found = 0
        THEN IF counter + 1 >= 3
             THEN [ret |-> 1, grid |-> grid, counter |-> counter + 1]
             ELSE [ret |-> 0, grid |-> grid, counter |-> counter + 1]
        ELSE count_solutions_loop(grid, counter, e.row, e.col, 0)

count_solutions_helper(grid, counter) ==
    LET e == find_empty_cell(grid)
    IN  IF e.found = 0
        THEN IF counter + 1 >= 2
             THEN [ret |-> 1, grid |-> grid, counter |-> counter + 1]
             ELSE [ret |-> 0, grid |-> grid, counter |-> counter + 1]
        ELSE count_solutions_loop(grid, counter, e.row, e.col, 0)

\* has_unique_solution searches a copy; the caller's grid is returned as it was.
has_unique_solution(grid) ==
    LET grid_copy == [i \in Idx |-> [j \in Idx |-> grid[i][j]]]
        h == count_solutions_helper(grid_copy, 0)
    IN  [ret |-> IF h.counter = 1 THEN 1 ELSE 0, grid |-> grid]

\* count_solutions hands the caller's grid itself to the helper.
count_solutions(grid) ==
    LET h == count_solutions_helper(grid, 0)
    IN  [ret |-> h.counter, grid |-> h.grid]


(***************************************************************************)
(* generator.c                                                             *)
(*                                                                         *)
(* rand() is modelled by the sequence of values it returns, read           *)
(* cyclically from position pos on.                                        *)
(***************************************************************************)
Rand(rnd, pos) == rnd[(pos % Len(rnd)) + 1]

swap(array, a, b) == [array EXCEPT ![a] = array[b], ![b] = array[a]]

\* The for loop of shuffle_array from index i down to 1.
RECURSIVE shuffle_from(_, _, _, _)
shuffle_from(array, i, rnd, pos) ==
    IF i <= 0
    THEN [array |-> array, pos |-> pos]
    ELSE LET j == Rand(rnd, pos) % (i + 1)
         IN  shuffle_from(swap(array, i, j), i - 1, rnd, pos + 1)

shuffle_array(array, num, rnd, pos) == shuffle_from(array, num - 1, rnd, pos)

RECURSIVE generate_complete_grid(_, _, _)
RECURSIVE generate_complete_loop(_, _, _, _, _, _, _)

generate_complete_loop(grid, numbers, row, col, i, rnd, pos) ==
    IF i >= GRID_SIZE
    THEN [ret |-> 0, grid |-> grid, pos |-> pos]
    ELSE LET guess == numbers[i]
         IN  IF is_valid_placement(grid, row, col, guess) = 1
             THEN LET r == generate_complete_grid([grid EXCEPT ![row][col] = guess], rnd, pos)
                  IN  IF r.ret = 1
                      THEN r
                      ELSE generate_complete_loop([r.grid EXCEPT ![row][col] = 0],
                                                  numbers, row, col, i + 1, rnd, r.pos)
             ELSE generate_complete_loop(grid, numbers, row, col, i + 1, rnd, pos)

\* The numbers are shuffled on entry of every call, before the base case.
generate_complete_grid(grid, rnd, pos) ==
    LET sh == shuffle_array([k \in Idx |-> k + 1], GRID_SIZE, rnd, pos)
        e  == find_empty_cell(grid)
    IN  IF e.found = 0
        THEN [ret |-> 1, grid |-> grid, pos |-> sh.pos]
        ELSE generate_complete_loop(grid, sh.array, e.row, e.col, 0, rnd, sh.pos)

EASY == 0

MEDIUM == 1

HARD == 2

EXPERT == 3

get_cells_to_remove(difficulty) ==
    CASE difficulty = EASY   -> 45
      [] difficulty = MEDIUM -> 49
      [] difficulty = HARD   -> 51
      [] difficulty = EXPERT -> 53
      [] OTHER               -> 45

\* The board of the model has GRID_SIZE * GRID_SIZE cells, fewer than any
\* target of get_cells_to_remove; the removal loop runs with the target
\* capped at MaxTarget cells.
MaxTarget == 4

Min(a, b) == IF a <= b THEN a ELSE b

cells_to_remove_for(difficulty) == Min(get_cells_to_remove(difficulty), MaxTarget)

max_attempts_for(cells_to_remove) == cells_to_remove * 10

\* Steps 1 to 3 of generate_puzzle: clear the grid, fill it, copy it.
generate_solution(rnd) == generate_complete_grid(EmptyGrid, rnd, 0)

\* Mutation of removal_iteration: the cleared cell is never put back.
removal_iteration_nocheck(grid, removed_count, attempts, row, col) ==
    IF grid[row][col] = 0
    THEN [grid |-> grid, removed_count |-> removed_count, attempts |-> attempts + 1]
    ELSE [grid |-> [grid EXCEPT ![row][col] = 0],
          removed_count |-> removed_count + 1, attempts |-> attempts + 1]

\* Mutation of removal_iteration: drawing an empty cell costs no attempt.
removal_iteration_freeskip(grid, removed_count, attempts, row, col) ==
    IF grid[row][col] = 0
    THEN [grid |-> grid, removed_count |-> removed_count, attempts |-> attempts]
    ELSE LET original_value == grid[row][col]
             u == has_unique_solution([grid EXCEPT ![row][col] = 0])
         IN  IF u.ret = 1
             THEN [grid |-> u.grid, removed_count |-> removed_count + 1,
                   attempts |-> attempts + 1]
             ELSE [grid |-> [u.grid EXCEPT ![row][col] = original_value],
                   removed_count |-> removed_count, attempts |-> attempts + 1]

\* Mutation of removal_iteration: a removal that is kept is not counted.
removal_iteration_nocount(grid, removed_count, attempts, row, col) ==
    IF grid[row][col] = 0
    THEN [grid |-> grid, removed_count |-> removed_count, attempts |-> attempts + 1]
    ELSE LET original_value == grid[row][col]
             u == has_unique_solution([grid EXCEPT ![row][col] = 0])
         IN  IF u.ret = 1
             THEN [grid |-> u.grid, removed_count |-> removed_count,
                   attempts |-> attempts + 1]
             ELSE [grid |-> [u.grid EXCEPT ![row][col] = original_value],
                   removed_count |-> removed_count, attempts |-> attempts + 1]

\* Mutation of removal_iteration: a cell put back is counted as removed.
removal_iteration_countall(grid, removed_count, attempts, row, col) ==
    IF grid[row][col] = 0
    THEN [grid |-> grid, removed_count |-> removed_count, attempts |-> attempts + 1]
    ELSE LET original_value == grid[row][col]
             u == has_unique_solution([grid EXCEPT ![row][col] = 0])
         IN  IF u.ret = 1
             THEN [grid |-> u.grid, removed_count |-> removed_count + 1,
                   attempts |-> attempts + 1]
             ELSE [grid |-> [u.grid EXCEPT ![row][col] = original_value],
                   removed_count |-> removed_count + 1, attempts |-> attempts + 1]

\* One iteration of the while loop of generate_puzzle on the cell drawn.
removal_iteration(grid, removed_count, attempts, row, col) ==
    IF grid[row][col] = 0
    THEN [grid |-> grid, removed_count |-> removed_count, attempts |-> attempts + 1]
    ELSE LET original_value == grid[row][col]
             u == has_unique_solution([grid EXCEPT ![row][col] = 0])
         IN  IF u.ret = 1
             THEN [grid |-> u.grid, removed_count |-> removed_count + 1,
                   attempts |-> attempts + 1]
             ELSE [grid |-> [u.grid EXCEPT ![row][col] = original_value],
                   removed_count |-> removed_count, attempts |-> attempts + 1]

\* Mutation of given_of: every cell is marked as a clue.
given_of_all(grid) == [row \in Idx |-> [col \in Idx |-> 1]]

\* Step 5 of generate_puzzle.
given_of(grid) ==
    [row \in Idx |-> [col \in Idx |-> IF grid[row][col] # 0 THEN 1 ELSE 0]]

\* The while loop of generate_puzzle with the cells drawn from rnd.
RECURSIVE removal_loop(_, _, _, _, _, _)
removal_loop(grid, removed_count, attempts, cells_to_remove, rnd, pos) ==
    IF removed_count < cells_to_remove /\ attempts < max_attempts_for(cells_to_remove)
    THEN LET row == Rand(rnd, pos) % GRID_SIZE
             col == Rand(rnd, pos + 1) % GRID_SIZE
             it  == removal_iteration(grid, removed_count, attempts, row, col)
         IN  removal_loop(it.grid, it.removed_count, it.attempts, cells_to_remove,
                          rnd, pos + 2)
    ELSE [grid |-> grid, removed_count |-> removed_count, attempts |-> attempts]

\* The values time(NULL) is taken to return.
Times == {2, 3}

\* srand(seed): the values rand() returns from then on, read cyclically by
\* Rand.  The same seed gives the same values.
srand(seed) == IF seed % 2 = 0 THEN <<1, 3, 2>> ELSE <<0, 1, 0, 1, 2>>

\* generate_puzzle as one call at time now: srand(time(NULL)), then every
\* draw taken from rand().
generate_puzzle(now, difficulty) ==
    LET rnd == srand(now)
        full == generate_solution(rnd)
        cells_to_remove == cells_to_remove_for(difficulty)
        lp == removal_loop(full.grid, 0, 0, cells_to_remove, rnd, full.pos)
    IN  [ret |-> 1, grid |-> lp.grid, solution |-> full.grid, given |-> given_of(lp.grid)]

\* The difficulty values explored; 7 is no member of difficulty_t.
Difficulties == {EASY, MEDIUM, HARD, EXPERT, 7}

(***************************************************************************)
(* Reference notions the properties are stated in: the cells that share a  *)
(* row, a column or a box with a cell, and the valid completions of a      *)
(* grid.  They are written from the rules of the puzzle, not from the      *)
(* solver.                                                                 *)
(***************************************************************************)
Cells == Idx \X Idx

SameBox(p, q) ==
    /\ p[1] \div BOX_SIZE = q[1] \div BOX_SIZE
    /\ p[2] \div BOX_SIZE = q[2] \div BOX_SIZE

PeersOf == [p \in Cells |-> {q \in Cells : q # p /\ (q[1] = p[1] \/ q[2] = p[2] \/ SameBox(p, q))}]

\* The other cells of the row, the column and the box of p.
Peers(p) == PeersOf[p]

\* No two distinct cells of a shared row, column or box hold the same digit.
RuleConsistent(g) ==
    \A p \in Cells : g[p[1]][p[2]] # 0 =>
        \A q \in Peers(p) : g[q[1]][q[2]] # g[p[1]][p[2]]

RowPerms == {r \in [Idx -> Digits] : \A a, b \in Idx : a # b => r[a] # r[b]}

\* The grids whose first k rows are filled without a conflict, rows k.. empty.
RECURSIVE ValidPrefixes(_)
ValidPrefixes(k) ==
    IF k = 0 THEN {EmptyGrid}
    ELSE {g \in {[p EXCEPT ![k - 1] = r] : p \in ValidPrefixes(k - 1), r \in RowPerms} :
              RuleConsistent(g)}

\* Every complete grid that satisfies the rules.
CompleteValidGrids == ValidPrefixes(GRID_SIZE)

Extends(s, g) == \A p \in Cells : g[p[1]][p[2]] # 0 => s[p[1]][p[2]] = g[p[1]][p[2]]

\* The valid completions of g.
Completions(g) == {s \in CompleteValidGrids : Extends(s, g)}

NumEmpty(g) == Cardinality({p \in Cells : g[p[1]][p[2]] = 0})

(***************************************************************************)
(* Input grids of the solver functions.                                    *)
(***************************************************************************)
\* At most this many cells of a complete grid are blanked.
MaxBlank == 4

\* At most this many cells of an otherwise empty grid are filled.
MaxClues == 2

\* The digits the clues of a sparse grid are taken from.
ClueDigits == {1, 2}

Blank(g, M) == [x \in Idx |-> [y \in Idx |-> IF <<x, y>> \in M THEN 0 ELSE g[x][y]]]

SmallSets(S, n) == {M \in SUBSET S : Cardinality(M) <= n}

\* The grid whose rows are the given sequences of digits.
GridOf(rows) == [x \in Idx |-> [y \in Idx |-> rows[x + 1][y + 1]]]

\* Two complete grids: the one the ascending search finds first, and one the
\* ascending search reaches only after taking guesses back.
BaseGrids ==
    {g \in {GridOf(<<<<1, 2, 3, 4>>, <<3, 4, 1, 2>>, <<2, 1, 4, 3>>, <<4, 3, 2, 1>>>>),
            GridOf(<<<<4, 3, 2, 1>>, <<2, 1, 4, 3>>, <<3, 4, 1, 2>>, <<1, 2, 3, 4>>>>)} :
        g \in CompleteValidGrids}

\* A complete valid grid with a few cells blanked.
DenseGrids == {Blank(b, M) : b \in BaseGrids, M \in SmallSets(Cells, MaxBlank)}

\* A few clues anywhere, consistent or not.
SparseGrids ==
    {[x \in Idx |-> [y \in Idx |-> IF <<x, y>> \in DOMAIN f THEN f[<<x, y>>] ELSE 0]] :
        f \in UNION {[M -> ClueDigits] : M \in SmallSets(Cells, MaxClues)}}

\* A dense grid with one cell overwritten: filled cells conflict.
ConflictGrids ==
    {[Blank(b, M) EXCEPT ![p[1]][p[2]] = v] :
        b \in BaseGrids, M \in SmallSets(Cells, 1), p \in Cells, v \in Digits}

\* A dense grid with one cell overwritten and the peers holding that digit
\* blanked: no filled cells conflict, but a completion need not exist.
DeadEndGrids ==
    {[Blank(b, M \cup {q \in Peers(p) : b[q[1]][q[2]] = v}) EXCEPT ![p[1]][p[2]] = v] :
        b \in BaseGrids, M \in SmallSets(Cells, 1), p \in Cells, v \in Digits}

InputGrids == DenseGrids \cup SparseGrids \cup ConflictGrids \cup DeadEndGrids

\* The grids the two rule checks are applied to.
CheckerGrids == SparseGrids \cup ConflictGrids

(***************************************************************************)
(* input.c and game.c: the operations on a game_state_t.  Each operator    *)
(* takes the structure and gives the structure the function leaves.        *)
(***************************************************************************)
Not(b) == IF b = 0 THEN 1 ELSE 0

move_cursor_up(g) ==
    IF g.cursor_row > 0 THEN [g EXCEPT !.cursor_row = @ - 1] ELSE g

move_cursor_down(g) ==
    IF g.cursor_row < GRID_SIZE - 1 THEN [g EXCEPT !.cursor_row = @ + 1] ELSE g

move_cursor_left(g) ==
    IF g.cursor_col > 0 THEN [g EXCEPT !.cursor_col = @ - 1] ELSE g

move_cursor_right(g) ==
    IF g.cursor_col < GRID_SIZE - 1 THEN [g EXCEPT !.cursor_col = @ + 1] ELSE g

\* can_enter_number without the look at given.
can_enter_number_always(g, row, col) == 1

can_enter_number(g, row, col) ==
    IF g.given[row][col] = 0 THEN 1 ELSE 0

\* process_number_input without the rule check.
process_number_input_nocheck(g, num) ==
    IF can_enter_number(g, g.cursor_row, g.cursor_col) # 0
    THEN [ret |-> 1, game |-> [g EXCEPT !.grid[g.cursor_row][g.cursor_col] = num]]
    ELSE [ret |-> 0, game |-> g]

process_number_input(g, num) ==
    IF /\ can_enter_number(g, g.cursor_row, g.cursor_col) # 0
       /\ is_valid_placement(g.grid, g.cursor_row, g.cursor_col, num) # 0
    THEN [ret |-> 1, game |-> [g EXCEPT !.grid[g.cursor_row][g.cursor_col] = num]]
    ELSE [ret |-> 0, game |-> g]

handle_mark_input(g, num) ==
    IF can_enter_number(g, g.cursor_row, g.cursor_col) # 0
    THEN [g EXCEPT !.marks[g.cursor_row][g.cursor_col][num - 1] = Not(@)]
    ELSE g

enter_number(g, num) ==
    IF g.show_marks # 0
    THEN handle_mark_input(g, num)
    ELSE process_number_input(g, num).game

delete_number(g) ==
    IF can_enter_number(g, g.cursor_row, g.cursor_col) # 0
    THEN [g EXCEPT !.moves = IF g.grid[g.cursor_row][g.cursor_col] # 0
                             THEN @ + 1 ELSE @,
                   !.grid[g.cursor_row][g.cursor_col] = 0,
                   !.marks[g.cursor_row][g.cursor_col] = [i \in Idx |-> 0]]
    ELSE g

toggle_marks(g) == [g EXCEPT !.show_marks = Not(@)]

check_solution(g) ==
    IF \E row \in Idx, col \in Idx : g.grid[row][col] # g.solution[row][col]
    THEN [g EXCEPT !.is_completed = 0]
    ELSE [g EXCEPT !.is_completed = 1]

\* solve_puzzle without the assignment to is_completed.
solve_puzzle_noflag(g) ==
    [g EXCEPT !.grid = [row \in Idx |-> [col \in Idx |-> g.solution[row][col]]]]

\* solve_puzzle with the copy written the other way round.
solve_puzzle_swapped(g) ==
    [g EXCEPT !.solution = [row \in Idx |-> [col \in Idx |-> g.grid[row][col]]],
              !.is_completed = 1]

solve_puzzle(g) ==
    [g EXCEPT !.grid = [row \in Idx |-> [col \in Idx |-> g.solution[row][col]]],
              !.is_completed = 1]

\* check_solution, then the flag it left.
is_game_complete(g) ==
    LET checked == check_solution(g)
    IN  [ret |-> checked.is_completed, game |-> checked]

reset_game(g) ==
    [g EXCEPT !.grid = [row \in Idx |-> [col \in Idx |->
                           IF g.given[row][col] = 1 THEN g.solution[row][col] ELSE 0]],
              !.marks = [row \in Idx |-> [col \in Idx |-> [i \in Idx |-> 0]]],
              !.is_paused = 0, !.start_time = 0, !.completion_time = 0,
              !.show_marks = 0, !.cursor_row = 0, !.cursor_col = 0,
              !.moves = 0, !.is_completed = 0]

\* The puzzles generate_puzzle returns, by time of the call and difficulty.
GameDifficulties == {MEDIUM, EXPERT}

Generated ==
    [now \in Times |-> [d \in GameDifficulties |-> generate_puzzle(now, d)]]

\* new_puzzle, with the puzzle p that generate_puzzle wrote.
new_puzzle(g, p) ==
    [g EXCEPT !.grid = p.grid, !.solution = p.solution, !.given = p.given,
              !.cursor_row = 0, !.cursor_col = 0,
              !.moves = 0, !.is_completed = 0, !.completion_time = 0,
              !.marks = [row \in Idx |-> [col \in Idx |-> [i \in Idx |-> 0]]]]

init_game(g, difficulty, now) ==
    new_puzzle([g EXCEPT !.difficulty = difficulty, !.is_paused = 0,
                         !.start_time = 0, !.show_marks = 0,
                         !.completion_time = 0],
               Generated[now][difficulty])

(***************************************************************************)
(* game.c: the hint system.  The three out parameters are passed as the    *)
(* record out = [row, col, value]; a function that finds nothing leaves    *)
(* them as they were.                                                      *)
(***************************************************************************)
NoHint(out) == [ret |-> 0, row |-> out.row, col |-> out.col, value |-> out.value]

\* The digits the num loop of find_naked_single counts at a cell.
possible_digits(grid, row, col) ==
    {num \in Digits : is_valid_placement(grid, row, col, num) # 0}

\* The loops of find_naked_single taking a cell with any possible digit.
RECURSIVE find_naked_from_any(_, _, _)
find_naked_from_any(g, k, out) ==
    IF k >= GRID_SIZE * GRID_SIZE
    THEN NoHint(out)
    ELSE LET row == k \div GRID_SIZE
             col == k % GRID_SIZE
             possible == possible_digits(g.grid, row, col)
         IN  IF g.grid[row][col] = 0 /\ Cardinality(possible) >= 1
             THEN [ret |-> 1, row |-> row, col |-> col,
                   value |-> CHOOSE n \in possible : \A m \in possible : m <= n]
             ELSE find_naked_from_any(g, k + 1, out)

\* The nested for loops of find_naked_single from row-major position k on.
RECURSIVE find_naked_from(_, _, _)
find_naked_from(g, k, out) ==
    IF k >= GRID_SIZE * GRID_SIZE
    THEN NoHint(out)
    ELSE LET row == k \div GRID_SIZE
             col == k % GRID_SIZE
             possible == possible_digits(g.grid, row, col)
         IN  IF g.grid[row][col] = 0 /\ Cardinality(possible) = 1
             THEN [ret |-> 1, row |-> row, col |-> col,
                   value |-> CHOOSE n \in possible : \A m \in possible : m <= n]
             ELSE find_naked_from(g, k + 1, out)

find_naked_single(g, out) == find_naked_from(g, RowMajor(0, 0), out)

\* The regions find_hidden_single scans for one digit, in its order: the
\* rows, then the columns, then the boxes in row-major order; each region
\* is the sequence of its cells in the order of the inner loops.
BoxesPerSide == GRID_SIZE \div BOX_SIZE

RowRegion(row) == [i \in 1 .. GRID_SIZE |-> <<row, i - 1>>]

ColRegion(col) == [i \in 1 .. GRID_SIZE |-> <<i - 1, col>>]

BoxRegion(box_row, box_col) ==
    [i \in 1 .. (BOX_SIZE * BOX_SIZE) |->
        <<box_row * BOX_SIZE + ((i - 1) \div BOX_SIZE),
          box_col * BOX_SIZE + ((i - 1) % BOX_SIZE)>>]

HintRegions ==
    [i \in 1 .. (2 * GRID_SIZE + BoxesPerSide * BoxesPerSide) |->
        IF i <= GRID_SIZE THEN RowRegion(i - 1)
        ELSE IF i <= 2 * GRID_SIZE THEN ColRegion(i - GRID_SIZE - 1)
        ELSE BoxRegion((i - 2 * GRID_SIZE - 1) \div BoxesPerSide,
                       (i - 2 * GRID_SIZE - 1) % BoxesPerSide)]

\* The positions recorded for num in a region: possible_cols, possible_rows
\* or possible_positions.
possible_positions(grid, region, num) ==
    LET Fits(p) == grid[p[1]][p[2]] = 0 /\ is_valid_placement(grid, p[1], p[2], num) # 0
    IN  SelectSeq(region, Fits)

\* The loops of find_hidden_single with the regions outermost and the
\* digits inside.
RECURSIVE find_hidden_from_regions_outer(_, _, _, _)
find_hidden_from_regions_outer(g, num, i, out) ==
    IF i > Len(HintRegions)
    THEN NoHint(out)
    ELSE IF num > GRID_SIZE
    THEN find_hidden_from_regions_outer(g, 1, i + 1, out)
    ELSE LET possible == possible_positions(g.grid, HintRegions[i], num)
         IN  IF Len(possible) = 1
             THEN [ret |-> 1, row |-> possible[1][1], col |-> possible[1][2],
                   value |-> num]
             ELSE find_hidden_from_regions_outer(g, num + 1, i, out)

\* The loops of find_hidden_single from digit num, region i on.
RECURSIVE find_hidden_from(_, _, _, _)
find_hidden_from(g, num, i, out) ==
    IF num > GRID_SIZE
    THEN NoHint(out)
    ELSE IF i > Len(HintRegions)
    THEN find_hidden_from(g, num + 1, 1, out)
    ELSE LET possible == possible_positions(g.grid, HintRegions[i], num)
         IN  IF Len(possible) = 1
             THEN [ret |-> 1, row |-> possible[1][1], col |-> possible[1][2],
                   value |-> num]
             ELSE find_hidden_from(g, num, i + 1, out)

find_hidden_single(g, out) == find_hidden_from(g, 1, 1, out)

\* Strategy 3 with the value read from grid.
RECURSIVE first_empty_from_grid(_, _, _)
first_empty_from_grid(g, k, out) ==
    IF k >= GRID_SIZE * GRID_SIZE
    THEN NoHint(out)
    ELSE LET row == k \div GRID_SIZE
             col == k % GRID_SIZE
         IN  IF g.grid[row][col] = 0 /\ g.given[row][col] = 0
             THEN [ret |-> 1, row |-> row, col |-> col,
                   value |-> g.grid[row][col]]
             ELSE first_empty_from_grid(g, k + 1, out)

\* Strategy 3 of get_hint from row-major position k on.
RECURSIVE first_empty_from(_, _, _)
first_empty_from(g, k, out) ==
    IF k >= GRID_SIZE * GRID_SIZE
    THEN NoHint(out)
    ELSE LET row == k \div GRID_SIZE
             col == k % GRID_SIZE
         IN  IF g.grid[row][col] = 0 /\ g.given[row][col] = 0
             THEN [ret |-> 1, row |-> row, col |-> col,
                   value |-> g.solution[row][col]]
             ELSE first_empty_from(g, k + 1, out)

\* get_hint without strategy 3.
get_hint_no_fallback(g, out) ==
    LET naked == find_naked_single(g, out)
        hidden == find_hidden_single(g, out)
    IN  IF naked.ret # 0 THEN naked
        ELSE IF hidden.ret # 0 THEN hidden
        ELSE NoHint(out)

\* get_hint with the order of the first two strategies exchanged.
get_hint_hidden_first(g, out) ==
    LET hidden == find_hidden_single(g, out)
        naked == find_naked_single(g, out)
    IN  IF hidden.ret # 0 THEN hidden
        ELSE IF naked.ret # 0 THEN naked
        ELSE first_empty_from(g, RowMajor(0, 0), out)

get_hint(g, out) ==
    LET naked == find_naked_single(g, out)
        hidden == find_hidden_single(g, out)
    IN  IF naked.ret # 0 THEN naked
        ELSE IF hidden.ret # 0 THEN hidden
        ELSE first_empty_from(g, RowMajor(0, 0), out)

show_hint_message(g, row, col) ==
    [g EXCEPT !.cursor_row = row, !.cursor_col = col]

(***************************************************************************)
(* game.c: the timer.  now is the value time(NULL) returns.                *)
(***************************************************************************)
start_timer(g, now) ==
    [g EXCEPT !.start_time = now, !.pause_time = 0, !.is_paused = 0]

pause_timer(g, now) ==
    IF g.is_paused = 0
    THEN [g EXCEPT !.pause_time = now, !.is_paused = 1]
    ELSE g

\* resume_timer without the shift of start_time.
resume_timer_noshift(g, now) ==
    IF g.is_paused # 0
    THEN [g EXCEPT !.pause_time = 0, !.is_paused = 0]
    ELSE g

resume_timer(g, now) ==
    IF g.is_paused # 0
    THEN [g EXCEPT !.start_time = @ + (now - g.pause_time),
                   !.pause_time = 0, !.is_paused = 0]
    ELSE g

get_elapsed_time(g, now) ==
    IF g.start_time = 0 THEN 0
    ELSE IF g.completion_time # 0 THEN g.completion_time - g.start_time
    ELSE IF g.is_paused # 0 THEN g.pause_time - g.start_time
    ELSE now - g.start_time

(***************************************************************************)
(* State.                                                                  *)
(*   call  one call of a solver function: the function, its arguments, its *)
(*         return value and the grid argument as the call leaves it        *)
(*   game  the game_state_t of the running game                            *)
(*   gen   the seed srand was last called with and the call of             *)
(*         generate_puzzle in progress: its position and its               *)
(*         local variables, the number of times the body of its while loop *)
(*         has run and its return value                                    *)
(*   keys  the number of key presses the session has handled              *)
(*   clock the value time(NULL) returns                                    *)
(*   ticks the seconds of clock since the last start_timer, those with the *)
(*         timer running and those with it paused                          *)
(***************************************************************************)
VARIABLES call, game, gen, keys, clock, ticks

vars == <<call, game, gen, keys, clock, ticks>>

NoCall == [op |-> "none", grid |-> EmptyGrid, row |-> 0, col |-> 0, num |-> 0,
           ret |-> 0, out |-> EmptyGrid, counter |-> 0, depth |-> 0]

ConstGrid(v) == [x \in Idx |-> [y \in Idx |-> v]]

NoMarks == [row \in Idx |-> [col \in Idx |-> [m \in Idx |-> 0]]]

\* A game_state_t whose every field holds v.
FilledGame(v) ==
    [grid |-> ConstGrid(v), solution |-> ConstGrid(v), given |-> ConstGrid(v),
     marks |-> [row \in Idx |-> [col \in Idx |-> [m \in Idx |-> v]]],
     show_marks |-> v, cursor_row |-> v, cursor_col |-> v,
     difficulty |-> v, moves |-> v,
     start_time |-> v, pause_time |-> v, completion_time |-> v,
     is_paused |-> v, is_completed |-> v]

NoGame == FilledGame(0)

\* No start_timer yet.
NoTicks == [started |-> FALSE, unpaused |-> 0, paused |-> 0]

NoGen == [pc |-> "none", seed |-> 0, removed_count |-> 0, cells_to_remove |-> 0,
          attempts |-> 0, max_attempts |-> 0, iterations |-> 0, ret |-> 0]

(***************************************************************************)
(* The solver functions applied to an input grid.                          *)
(***************************************************************************)
InitSolver ==
    /\ clock = 0
    /\ ticks = NoTicks
    /\ \E g \in InputGrids : call = [NoCall EXCEPT !.op = "input", !.grid = g, !.out = g]
    /\ game = NoGame
    /\ gen = NoGen
    /\ keys = 0

CallSolveGrid ==
    /\ call.op = "input"
    /\ UNCHANGED <<game, gen, keys, clock, ticks>>
    /\ \E r \in {solve_grid(call.grid)} :
           call' = [call EXCEPT !.op = "solve_grid", !.ret = r.ret, !.out = r.grid,
                                !.depth = r.depth]

CallCountSolutions ==
    /\ call.op = "input"
    /\ UNCHANGED <<game, gen, keys, clock, ticks>>
    /\ \E r \in {count_solutions(call.grid)} :
           call' = [call EXCEPT !.op = "count_solutions", !.ret = r.ret, !.out = r.grid,
                                !.counter = r.ret]

CallHasUniqueSolution ==
    /\ call.op = "input"
    /\ UNCHANGED <<game, gen, keys, clock, ticks>>
    /\ \E r \in {has_unique_solution(call.grid)} :
           call' = [call EXCEPT !.op = "has_unique_solution", !.ret = r.ret, !.out = r.grid]

NextSolver == CallSolveGrid \/ CallCountSolutions \/ CallHasUniqueSolution

SpecSolver == InitSolver /\ [][NextSolver]_vars

(***************************************************************************)
(* The two rule checks applied to an input grid.                           *)
(***************************************************************************)
InitChecker ==
    /\ clock = 0
    /\ ticks = NoTicks
    /\ \E g \in CheckerGrids : call = [NoCall EXCEPT !.op = "input", !.grid = g, !.out = g]
    /\ game = NoGame
    /\ gen = NoGen
    /\ keys = 0

CallIsValidPlacement ==
    /\ call.op = "input"
    /\ UNCHANGED <<game, gen, keys, clock, ticks>>
    /\ \E row \in Idx, col \in Idx, num \in Digits :
          call' = [call EXCEPT !.op = "is_valid_placement",
                               !.row = row, !.col = col, !.num = num,
                               !.ret = is_valid_placement(call.grid, row, col, num)]

CallIsGridValid ==
    /\ call.op = "input"
    /\ UNCHANGED <<game, gen, keys, clock, ticks>>
    /\ call' = [call EXCEPT !.op = "is_grid_valid", !.ret = is_grid_valid(call.grid)]

NextChecker == CallIsValidPlacement \/ CallIsGridValid

SpecChecker == InitChecker /\ [][NextChecker]_vars


(***************************************************************************)
(* generate_puzzle step by step, as init_game -> new_puzzle calls it on a  *)
(* game_state_t of which only the fields init_game sets are initialised.   *)
(* Every draw of rand() in the removal loop is free.                       *)
(***************************************************************************)
\* The value the fields init_game leaves uninitialised are taken to hold;
\* generate_puzzle reads none of them before it writes it.
Junk == {1}

\* The cells rand() % 9, rand() % 9 is taken to draw in the removal loop: the
\* rows of the first band of boxes.
DrawRows == 0 .. (BOX_SIZE - 1)

InitGen ==
    /\ clock = 0
    /\ ticks = NoTicks
    /\ call = NoCall
    /\ \E j \in Junk, d \in Difficulties :
          game = [FilledGame(j) EXCEPT !.difficulty = d, !.is_paused = 0,
                                       !.start_time = 0, !.show_marks = 0,
                                       !.completion_time = 0]
    /\ gen = [NoGen EXCEPT !.pc = "call"]
    /\ keys = 0

\* generate_puzzle up to the while loop: counters, steps 1 to 3.
GenBegin ==
    /\ gen.pc = "call"
    /\ \E now \in Times :
         \E full \in {generate_solution(srand(now))} :
            /\ game' = [game EXCEPT !.grid = full.grid, !.solution = full.grid]
            /\ gen' = [pc |-> "loop", seed |-> now, removed_count |-> 0,
                       cells_to_remove |-> cells_to_remove_for(game.difficulty),
                       attempts |-> 0,
                       max_attempts |->
                           max_attempts_for(cells_to_remove_for(game.difficulty)),
                       iterations |-> 0, ret |-> 0]
    /\ UNCHANGED <<call, keys, clock, ticks>>

\* One iteration of the while loop.
GenIteration ==
    /\ gen.pc = "loop"
    /\ gen.removed_count < gen.cells_to_remove
    /\ gen.attempts < gen.max_attempts
    /\ \E row \in DrawRows, col \in Idx :
         \E it \in {removal_iteration(game.grid, gen.removed_count, gen.attempts, row, col)} :
            /\ game' = [game EXCEPT !.grid = it.grid]
            /\ gen' = [gen EXCEPT !.removed_count = it.removed_count,
                                  !.attempts = it.attempts,
                                  !.iterations = @ + 1]
    /\ UNCHANGED <<call, keys, clock, ticks>>

\* The loop is left, given is filled in, generate_puzzle returns 1.
GenReturn ==
    /\ gen.pc = "loop"
    /\ ~(gen.removed_count < gen.cells_to_remove /\ gen.attempts < gen.max_attempts)
    /\ game' = [game EXCEPT !.given = given_of(game.grid)]
    /\ gen' = [gen EXCEPT !.pc = "done", !.ret = 1]
    /\ UNCHANGED <<call, keys, clock, ticks>>

NextGen == GenBegin \/ GenIteration \/ GenReturn

SpecGen == InitGen /\ [][NextGen]_vars

(***************************************************************************)
(* A session of the game: init_game, then the operations handle_input      *)
(* dispatches a key press to and reset_game, at most MaxKeys of them.      *)
(***************************************************************************)
MaxKeys == 7

InitGame ==
    /\ clock = 0
    /\ ticks = NoTicks
    /\ call = NoCall
    /\ keys = 0
    /\ \E j \in Junk, d \in GameDifficulties, now \in Times :
          /\ game = init_game(FilledGame(j), d, now)
          /\ gen = [NoGen EXCEPT !.seed = now]

\* One operation that leaves the structure g; call keeps the results of a
\* get_hint call only until the next operation.
Step(g) ==
    /\ keys < MaxKeys
    /\ keys' = keys + 1
    /\ game' = g
    /\ call' = NoCall
    /\ UNCHANGED <<gen, clock, ticks>>

CallMoveCursorUp == Step(move_cursor_up(game))

CallMoveCursorDown == Step(move_cursor_down(game))

CallMoveCursorLeft == Step(move_cursor_left(game))

CallMoveCursorRight == Step(move_cursor_right(game))

CallEnterNumber == \E num \in Digits : Step(enter_number(game, num))

CallDeleteNumber == Step(delete_number(game))

CallToggleMarks == Step(toggle_marks(game))

CallCheckSolution == Step(check_solution(game))

CallSolvePuzzle == Step(solve_puzzle(game))

CallResetGame == Step(reset_game(game))

\* new_puzzle at time now; generate_puzzle seeds rand() with now.
CallNewPuzzle ==
    \E now \in Times :
        /\ keys < MaxKeys
        /\ keys' = keys + 1
        /\ game' = new_puzzle(game, Generated[now][game.difficulty])
        /\ gen' = [gen EXCEPT !.seed = now]
        /\ call' = NoCall
        /\ UNCHANGED <<clock, ticks>>

CallStartTimer == \E now \in Times : Step(start_timer(game, now))

CallPauseTimer == \E now \in Times : Step(pause_timer(game, now))

CallResumeTimer == \E now \in Times : Step(resume_timer(game, now))

\* get_hint with out parameters that hold what the caller's uninitialised
\* locals held.
CallGetHint ==
    /\ keys < MaxKeys
    /\ keys' = keys + 1
    /\ UNCHANGED <<game, gen, clock, ticks>>
    /\ \E j \in Junk :
         \E h \in {get_hint(game, [row |-> j, col |-> j, value |-> j])} :
            call' = [NoCall EXCEPT !.op = "get_hint", !.ret = h.ret,
                                   !.row = h.row, !.col = h.col, !.num = h.value]

NextGame ==
    \/ CallMoveCursorUp
    \/ CallMoveCursorDown
    \/ CallMoveCursorLeft
    \/ CallMoveCursorRight
    \/ CallEnterNumber
    \/ CallDeleteNumber
    \/ CallToggleMarks
    \/ CallCheckSolution
    \/ CallSolvePuzzle
    \/ CallResetGame
    \/ CallNewPuzzle
    \/ CallStartTimer
    \/ CallPauseTimer
    \/ CallResumeTimer
    \/ CallGetHint

SpecGame == InitGame /\ [][NextGame]_vars

(***************************************************************************)
(* The hint system in a game on a puzzle with more empty cells than the    *)
(* generator of the scaled board leaves: a puzzle with one completion, the *)
(* cursor on any cell, then enter_number and get_hint, at most MaxHintKeys *)
(* of them.                                                                *)
(***************************************************************************)
\* At most this many cells of the solution are removed.
MaxHintBlank == 6

MaxHintKeys == 2

\* The cells the removal loop is taken to have drawn.
HintBlankCells == {p \in Cells : p[1] # 1 /\ p[2] # GRID_SIZE - 1}

\* What generate_puzzle writes: solution, the puzzle left of it and given.
HintPuzzles ==
    {p \in {[grid |-> Blank(b, M), solution |-> b, given |-> given_of(Blank(b, M))] :
                b \in BaseGrids, M \in SmallSets(HintBlankCells, MaxHintBlank)} :
        Cardinality(Completions(p.grid)) = 1}

InitHint ==
    /\ clock = 0
    /\ ticks = NoTicks
    /\ call = NoCall
    /\ keys = 0
    /\ gen = NoGen
    /\ \E j \in Junk, p \in HintPuzzles, row \in Idx, col \in Idx :
          game = [new_puzzle([FilledGame(j) EXCEPT !.difficulty = MEDIUM, !.is_paused = 0,
                                                   !.start_time = 0, !.show_marks = 0,
                                                   !.completion_time = 0], p)
                    EXCEPT !.cursor_row = row, !.cursor_col = col]

HintEnterNumber == keys < MaxHintKeys /\ CallEnterNumber

HintGetHint == keys < MaxHintKeys /\ CallGetHint

NextHint ==
    \/ HintEnterNumber
    \/ HintGetHint

SpecHint == InitHint /\ [][NextHint]_vars

(***************************************************************************)
(* The timer of a game: init_game, then start_timer, pause_timer,          *)
(* resume_timer and get_elapsed_time at the time the clock shows, and the  *)
(* clock advancing a second at a time up to MaxClock.                      *)
(***************************************************************************)
MaxClock == 5

\* The times the program is taken to start at.
InitClocks == {1, 2}

InitTimer ==
    /\ call = NoCall
    /\ keys = 0
    /\ ticks = NoTicks
    /\ clock \in InitClocks
    /\ \E j \in Junk, now \in Times :
          /\ game = init_game(FilledGame(j), MEDIUM, now)
          /\ gen = [NoGen EXCEPT !.seed = now]

TimerTick ==
    /\ clock < MaxClock
    /\ clock' = clock + 1
    /\ ticks' = IF ~ticks.started THEN ticks
                ELSE IF game.is_paused # 0
                THEN [ticks EXCEPT !.paused = @ + 1]
                ELSE [ticks EXCEPT !.unpaused = @ + 1]
    /\ call' = NoCall
    /\ UNCHANGED <<game, gen, keys>>

TimerStart ==
    /\ game' = start_timer(game, clock)
    /\ ticks' = [started |-> TRUE, unpaused |-> 0, paused |-> 0]
    /\ call' = NoCall
    /\ UNCHANGED <<gen, keys, clock>>

TimerPause ==
    /\ game' = pause_timer(game, clock)
    /\ call' = NoCall
    /\ UNCHANGED <<gen, keys, clock, ticks>>

TimerResume ==
    /\ game' = resume_timer(game, clock)
    /\ call' = NoCall
    /\ UNCHANGED <<gen, keys, clock, ticks>>

TimerGetElapsed ==
    /\ call' = [NoCall EXCEPT !.op = "get_elapsed_time",
                              !.ret = get_elapsed_time(game, clock)]
    /\ UNCHANGED <<game, gen, keys, clock, ticks>>

NextTimer ==
    \/ TimerTick
    \/ TimerStart
    \/ TimerPause
    \/ TimerResume
    \/ TimerGetElapsed

SpecTimer == InitTimer /\ [][NextTimer]_vars

(***************************************************************************)
(* Properties of generate_puzzle (SpecGen).                                *)
(***************************************************************************)
\* C1: the puzzle generate_puzzle returns has exactly one valid completion,
\* the returned solution, also when the attempt budget ran out.
C1_PuzzleHasOnlyTheSolution ==
    gen.pc = "done" => Completions(game.grid) = {game.solution}

\* generate_puzzle has returned with the budget used up before the target.
C1_Witness ==
    /\ gen.pc = "done"
    /\ gen.attempts = gen.max_attempts
    /\ gen.removed_count > 0
    /\ gen.removed_count < gen.cells_to_remove

\* C2: on return the solution is complete and rule-valid, given marks
\* exactly the non-empty cells, and every given cell holds its solution digit.
C2_GivenMatchesPuzzle ==
    gen.pc = "done" =>
        /\ game.solution \in CompleteValidGrids
        /\ \A r \in Idx, c \in Idx :
              /\ game.given[r][c] = 1 <=> game.grid[r][c] # 0
              /\ game.given[r][c] = 1 => game.grid[r][c] = game.solution[r][c]

\* generate_puzzle has returned with the target number of cells removed.
C2_Witness ==
    /\ gen.pc = "done"
    /\ gen.removed_count = gen.cells_to_remove
    /\ NumEmpty(game.grid) = gen.cells_to_remove

(***************************************************************************)
(* Properties of the solver functions (SpecSolver, SpecChecker).           *)
(***************************************************************************)
HasUniqueCompletion(g) == Cardinality(Completions(g)) = 1

\* C3: solve_grid applied to a grid with exactly one valid completion
\* returns 1 and leaves the grid equal to that completion.
C3_SolveRoundTrip ==
    (call.op = "solve_grid" /\ HasUniqueCompletion(call.grid))
        => (call.ret = 1 /\ call.out \in Completions(call.grid))

\* A puzzle with several empty cells and one completion has been solved, and
\* the search had to take a guess back: the first candidate that fits the
\* first empty cell is not the digit of the completion.
C3_Witness ==
    /\ call.op = "solve_grid"
    /\ HasUniqueCompletion(call.grid)
    /\ NumEmpty(call.grid) >= 3
    /\ call.ret = 1
    /\ LET e == find_empty_cell(call.grid)
       IN  \E n \in Digits :
              /\ n < call.out[e.row][e.col]
              /\ is_valid_placement(call.grid, e.row, e.col, n) = 1

\* C4: count_solutions leaves the caller's grid cell for cell as it was.
C4_CountKeepsGrid ==
    call.op = "count_solutions" => call.out = call.grid

\* C5: count_solutions returns the number of valid completions of the grid.
C5_CountIsTotal ==
    call.op = "count_solutions" => call.ret = Cardinality(Completions(call.grid))

\* C6: has_unique_solution returns 1 exactly when the grid has exactly one
\* valid completion, and leaves the caller's grid unchanged.
C6_UniqueIffOneCompletion ==
    call.op = "has_unique_solution" =>
        /\ (call.ret = 1 <=> HasUniqueCompletion(call.grid))
        /\ call.out = call.grid

\* C7: is_valid_placement returns 0 exactly when another cell of the row,
\* the column or the box holds num; the target cell itself never counts.
C7_PlacementIffNoPeerHolds ==
    call.op = "is_valid_placement" =>
        (call.ret = 0 <=>
            \E q \in Peers(<<call.row, call.col>>) : call.grid[q[1]][q[2]] = call.num)

\* The cell asked about already holds num and the placement is accepted.
C7_Witness ==
    /\ call.op = "is_valid_placement"
    /\ call.grid[call.row][call.col] = call.num
    /\ call.ret = 1

\* C8: is_grid_valid returns 1 exactly when every non-zero cell passes
\* is_valid_placement with its own digit; empty cells are ignored.
C8_GridValidIffCellsPass ==
    call.op = "is_grid_valid" =>
        (call.ret = 1 <=>
            \A r \in Idx, c \in Idx :
                call.grid[r][c] # 0 =>
                    is_valid_placement(call.grid, r, c, call.grid[r][c]) = 1)

\* An incomplete grid with clues is accepted.
C8_Witness ==
    /\ call.op = "is_grid_valid"
    /\ call.ret = 1
    /\ NumEmpty(call.grid) > 0
    /\ NumEmpty(call.grid) < GRID_SIZE * GRID_SIZE - 1

\* C9: on a grid whose filled cells conflict, or that has no valid
\* completion, solve_grid returns 0.
C9_MalformedReturnsZero ==
    (call.op = "solve_grid"
        /\ (~RuleConsistent(call.grid) \/ Completions(call.grid) = {}))
        => call.ret = 0

(***************************************************************************)
(* Properties of the game session (SpecGame).                              *)
(***************************************************************************)
\* C10: in every state of a session, every cell with given = 1 holds the
\* digit of solution, so it is not empty: no operation of the game changes
\* a given cell.
C10_GivenCellsKeepSolution ==
    \A r \in Idx, c \in Idx :
        game.given[r][c] = 1 =>
            /\ game.grid[r][c] = game.solution[r][c]
            /\ game.grid[r][c] # 0

\* The player has deleted a digit, holds a digit of their own and a pencil
\* mark in the grid, and the cursor stands on a given cell.
C10_Witness ==
    /\ keys > 0
    /\ game.moves > 0
    /\ game.given[game.cursor_row][game.cursor_col] = 1
    /\ \E r \in Idx, c \in Idx : game.given[r][c] = 0 /\ game.grid[r][c] # 0
    /\ \E r \in Idx, c \in Idx, m \in Idx : game.marks[r][c][m] = 1

\* C11: every step of a session other than new_puzzle leaves solution and
\* given as they were.
C11_SolutionGivenFrame ==
    [][CallNewPuzzle \/ (game'.solution = game.solution /\ game'.given = game.given)]_vars

\* A solved, then edited, paused game in mark mode that was just asked for
\* a hint.
C11_Witness ==
    /\ call.op = "get_hint"
    /\ game.is_paused = 1
    /\ game.is_completed = 1
    /\ game.moves > 0
    /\ game.show_marks = 1

\* The empty cells at which exactly one digit passes is_valid_placement.
NakedCells(grid) ==
    {p \in Cells : grid[p[1]][p[2]] = 0
                   /\ Cardinality(possible_digits(grid, p[1], p[2])) = 1}

\* The cell of a non-empty set of cells that comes first in row-major order.
FirstCell(S) ==
    CHOOSE p \in S : \A q \in S : RowMajor(p[1], p[2]) <= RowMajor(q[1], q[2])

\* C12: get_hint returns 0 exactly when the grid has no empty cell.
C12_NoHintIffFull ==
    call.op = "get_hint" => (call.ret = 0 <=> NumEmpty(game.grid) = 0)

\* get_hint found nothing on a full grid.
C12_Witness ==
    /\ call.op = "get_hint"
    /\ call.ret = 0
    /\ NumEmpty(game.grid) = 0

\* C13: when some empty cell has exactly one digit that passes
\* is_valid_placement, get_hint returns the first such cell in row-major
\* order with that digit.
C13_NakedSingleFirst ==
    (call.op = "get_hint" /\ NakedCells(game.grid) # {}) =>
        LET p == FirstCell(NakedCells(game.grid))
        IN  /\ call.ret = 1
            /\ call.row = p[1]
            /\ call.col = p[2]
            /\ possible_digits(game.grid, p[1], p[2]) = {call.num}

\* A naked single is returned although the scan for hidden singles would
\* have returned another hint.
C13_Witness ==
    /\ call.op = "get_hint"
    /\ NakedCells(game.grid) # {}
    /\ LET hidden == find_hidden_single(game, [row |-> 0, col |-> 0, value |-> 0])
       IN  hidden.ret = 1 /\ <<hidden.row, hidden.col>> # <<call.row, call.col>>

\* A region in which exactly one empty cell accepts a digit.
HasHiddenSingle(grid) ==
    \E num \in Digits : \E i \in DOMAIN HintRegions :
        Cardinality({k \in DOMAIN HintRegions[i] :
            /\ grid[HintRegions[i][k][1]][HintRegions[i][k][2]] = 0
            /\ is_valid_placement(grid, HintRegions[i][k][1],
                                  HintRegions[i][k][2], num) = 1}) = 1

\* C14: with an empty cell and neither a naked nor a hidden single,
\* get_hint returns the first empty, non-given cell in row-major order with
\* the digit of solution.
C14_FallbackReveal ==
    (/\ call.op = "get_hint"
     /\ NumEmpty(game.grid) > 0
     /\ NakedCells(game.grid) = {}
     /\ ~HasHiddenSingle(game.grid)) =>
        LET E == {p \in Cells : game.grid[p[1]][p[2]] = 0 /\ game.given[p[1]][p[2]] = 0}
        IN  /\ E # {}
            /\ call.ret = 1
            /\ <<call.row, call.col>> = FirstCell(E)
            /\ call.num = game.solution[call.row][call.col]

\* The fallback is taken with more than one empty cell to choose from.
C14_Witness ==
    /\ call.op = "get_hint"
    /\ NumEmpty(game.grid) > 1
    /\ NakedCells(game.grid) = {}
    /\ ~HasHiddenSingle(game.grid)
    /\ call.ret = 1

\* C15: every run of the loop body counts as one attempt and the body runs
\* at most 10 times the target, after which generate_puzzle returns 1.
\* The loop is left when attempts reaches max_attempts, which is 10 times
\* the target, so the bounded count of iterations is what ends it.
C15_TerminatesWithinBudget ==
    /\ gen.pc \in {"loop", "done"} =>
            /\ gen.iterations = gen.attempts
            /\ gen.iterations <= 10 * gen.cells_to_remove
    /\ gen.pc \in {"loop", "done"} => gen.max_attempts = 10 * gen.cells_to_remove
    /\ gen.pc = "done" => gen.ret = 1

\* generate_puzzle returned 1 after the full budget of iterations with
\* fewer cells removed than the target.
C15_Witness ==
    /\ gen.pc = "done"
    /\ gen.ret = 1
    /\ gen.iterations = 10 * gen.cells_to_remove
    /\ gen.removed_count < gen.cells_to_remove

\* The number of cells marked as given.
NumGiven(given) == Cardinality({p \in Cells : given[p[1]][p[2]] = 1})

C17_NoReplayInSameTick ==
    [][(CallNewPuzzle /\ gen'.seed = gen.seed) =>
          <<game'.solution, game'.given>> # <<game.solution, game.given>>]_vars

\* C18: a number entered in number mode that process_number_input accepts
\* (return value 1) adds one to moves; a rejected one leaves grid and moves
\* as they were.
C18_PlacementCountsMove ==
    [][\A num \in Digits :
         (game.show_marks = 0 /\ Step(enter_number(game, num))) =>
            IF process_number_input(game, num).ret = 1
            THEN game'.moves = game.moves + 1
            ELSE game'.grid = game.grid /\ game'.moves = game.moves]_vars

\* C19: reset_game leaves the grid generate_puzzle returned, no pencil
\* marks, and zero in moves, is_completed, the cursor and the timer fields.
C19_ResetRestoresPuzzle ==
    [][CallResetGame =>
         /\ game'.grid = Generated[gen.seed][game.difficulty].grid
         /\ game'.marks = NoMarks
         /\ game'.moves = 0
         /\ game'.is_completed = 0
         /\ game'.cursor_row = 0
         /\ game'.cursor_col = 0
         /\ game'.start_time = 0
         /\ game'.pause_time = 0
         /\ game'.completion_time = 0
         /\ game'.is_paused = 0]_vars

\* C20: solve_puzzle leaves grid equal to solution and is_completed set,
\* and is_game_complete called next returns 1.
C20_SolveCompletes ==
    [][CallSolvePuzzle =>
         /\ game'.grid = game'.solution
         /\ game'.is_completed = 1
         /\ is_game_complete(game').ret = 1]_vars

\* The grid was completed by solve_puzzle after the player had deleted a
\* digit: the flag is set with moves counted and the timer paused.
C20_Witness ==
    /\ game.is_completed = 1
    /\ game.grid = game.solution
    /\ game.moves > 0
    /\ game.is_paused = 1

\* C21: whenever is_completed is 1, every cell of grid equals the cell of
\* solution.
C21_CompletedMeansSolved ==
    game.is_completed = 1 => game.grid = game.solution

\* C22: in every state of a session is_grid_valid accepts the grid.
C22_GridStaysValid ==
    is_grid_valid(game.grid) = 1

\* The player holds a digit that differs from the solution in a cell where
\* pencil marks were made, after a deletion.
C22_Witness ==
    /\ game.moves > 0
    /\ \E r \in Idx, c \in Idx :
          /\ game.given[r][c] = 0
          /\ game.grid[r][c] # 0
          /\ game.grid[r][c] # game.solution[r][c]
          /\ \E m \in Idx : game.marks[r][c][m] = 1

(***************************************************************************)
(* Further properties of the solver (SpecSolver).                          *)
(***************************************************************************)
\* C23: the counter count_solutions_helper leaves is never greater than 2
\* and, on a rule-consistent grid, is the number of valid completions or 2,
\* whichever is smaller (0 when there is none).
C23_CounterIsMinOfTwo ==
    call.op = "count_solutions" =>
        /\ call.counter <= 2
        /\ RuleConsistent(call.grid) =>
              call.counter = Min(Cardinality(Completions(call.grid)), 2)

\* A rule-consistent grid with three or more completions is counted as 2.
C23_Witness ==
    /\ call.op = "count_solutions"
    /\ RuleConsistent(call.grid)
    /\ Cardinality(Completions(call.grid)) >= 3
    /\ call.counter = 2

C26_SolvesConsistentGrids ==
    (/\ call.op = "solve_grid"
     /\ RuleConsistent(call.grid)
     /\ Completions(call.grid) # {}) =>
        /\ call.ret = 1
        /\ is_grid_complete(call.out) = 1
        /\ is_grid_valid(call.out) = 1
        /\ \A r \in Idx, c \in Idx :
              call.grid[r][c] # 0 => call.out[r][c] = call.grid[r][c]
        /\ NumEmpty(call.grid) = 0 => call.out = call.grid

\* A grid with several completions was solved.
C26_Witness ==
    /\ call.op = "solve_grid"
    /\ RuleConsistent(call.grid)
    /\ Cardinality(Completions(call.grid)) >= 2
    /\ NumEmpty(call.grid) >= 3
    /\ call.ret = 1

\* C29: when solve_grid returns 0 the grid is cell for cell the grid that
\* was passed in.
C29_FailureKeepsGrid ==
    (call.op = "solve_grid" /\ call.ret = 0) => call.out = call.grid

\* The search failed after placing digits in two or more cells.
C29_Witness ==
    /\ call.op = "solve_grid"
    /\ call.ret = 0
    /\ call.depth >= 3

(***************************************************************************)
(* Further properties of generate_puzzle (SpecGen).                        *)
(***************************************************************************)
\* The targets of the difficulty levels, as the claim lists them.
TargetTable(difficulty) ==
    CASE difficulty = EASY -> 45
      [] difficulty = MEDIUM -> 49
      [] difficulty = HARD -> 51
      [] difficulty = EXPERT -> 53
      [] OTHER -> 45

\* C27: throughout the removal loop the empty cells of the grid number
\* removed_count, which never exceeds the target of the difficulty (45, 49,
\* 51, 53, and 45 for an unknown value); on return the given cells are at
\* least all cells but the target.
C27_NeverBelowTarget ==
    /\ gen.pc \in {"loop", "done"} =>
          /\ get_cells_to_remove(game.difficulty) = TargetTable(game.difficulty)
          /\ gen.cells_to_remove = cells_to_remove_for(game.difficulty)
          /\ NumEmpty(game.grid) = gen.removed_count
          /\ gen.removed_count <= gen.cells_to_remove
    /\ gen.pc = "done" =>
          NumGiven(game.given) >= GRID_SIZE * GRID_SIZE - gen.cells_to_remove

\* generate_puzzle returned for an unknown difficulty value with exactly
\* the target removed.
C27_Witness ==
    /\ gen.pc = "done"
    /\ game.difficulty \notin {EASY, MEDIUM, HARD, EXPERT}
    /\ gen.removed_count = gen.cells_to_remove
    /\ NumGiven(game.given) = GRID_SIZE * GRID_SIZE - gen.cells_to_remove

(***************************************************************************)
(* Further properties of the hints (SpecGame).                             *)
(***************************************************************************)
\* The cells of region i in which digit num fits: empty cells where
\* is_valid_placement accepts it.
FittingCells(grid, i, num) ==
    {HintRegions[i][k] : k \in
        {k \in DOMAIN HintRegions[i] :
            /\ grid[HintRegions[i][k][1]][HintRegions[i][k][2]] = 0
            /\ is_valid_placement(grid, HintRegions[i][k][1],
                                  HintRegions[i][k][2], num) = 1}}

\* The pairs of a digit and a region with exactly one fitting cell.
HiddenSingles(grid) ==
    {d \in Digits \X DOMAIN HintRegions :
        Cardinality(FittingCells(grid, d[2], d[1])) = 1}

\* The pair that comes first with the digit outermost and, for one digit,
\* the rows before the columns before the boxes.
FirstHidden(grid) ==
    CHOOSE d \in HiddenSingles(grid) :
        \A e \in HiddenSingles(grid) :
            d[1] < e[1] \/ (d[1] = e[1] /\ d[2] <= e[2])

\* C24: with no naked single, get_hint returns the hidden single of the
\* first digit, and for it the first region in the order rows, columns,
\* boxes, that has exactly one empty cell where the digit fits.
C24_HiddenSingleOrder ==
    (/\ call.op = "get_hint"
     /\ NakedCells(game.grid) = {}
     /\ HiddenSingles(game.grid) # {}) =>
        LET d == FirstHidden(game.grid)
        IN  /\ call.ret = 1
            /\ call.num = d[1]
            /\ FittingCells(game.grid, d[2], d[1]) = {<<call.row, call.col>>}

\* A hidden single is returned where no naked single exists and a later
\* digit or region has a hidden single in another cell.
C24_Witness ==
    /\ call.op = "get_hint"
    /\ NakedCells(game.grid) = {}
    /\ call.ret = 1
    /\ \E e \in HiddenSingles(game.grid) :
          FittingCells(game.grid, e[2], e[1]) # {<<call.row, call.col>>}

(***************************************************************************)
(* Properties of the timer (SpecTimer).                                    *)
(***************************************************************************)
\* C28: before completion, get_elapsed_time returns the seconds the clock
\* advanced with the timer running since the last start_timer, so nothing of
\* a paused interval and the same value all through a pause; pause_timer on a
\* paused timer and resume_timer on a running one change nothing.
C28_ElapsedExcludesPauses ==
    /\ [](call.op = "get_elapsed_time" /\ ticks.started /\ game.completion_time = 0
             => call.ret = ticks.unpaused)
    /\ [][(TimerPause /\ game.is_paused # 0) \/ (TimerResume /\ game.is_paused = 0)
             => game' = game]_vars

C28_Witness ==
    /\ call.op = "get_elapsed_time"
    /\ ticks.started
    /\ ticks.paused >= 1
    /\ ticks.unpaused >= 2
    /\ game.is_paused = 0
    /\ call.ret = ticks.unpaused

(***************************************************************************)
(* Properties of the hint system on a correct board (SpecHint).            *)
(***************************************************************************)
\* Every non-empty cell of the grid holds the solution's digit.
CorrectBoard(g) ==
    \A p \in Cells : g.grid[p[1]][p[2]] # 0 => g.grid[p[1]][p[2]] = g.solution[p[1]][p[2]]

\* A hint that was found points to an empty cell and gives its solution digit.
AgreesWithSolution(g, h) ==
    h.ret # 0 => /\ g.grid[h.row][h.col] = 0
                 /\ h.value = g.solution[h.row][h.col]

\* C30: on a board whose non-empty cells all equal the solution, the hint of
\* each strategy (naked single, hidden single, first empty cell) and the hint
\* get_hint returns point to an empty cell and give the solution's digit for
\* it; get_hint leaves grid, marks and cursor as they were.
C30_HintsAgreeWithSolution ==
    /\ [](CorrectBoard(game) =>
            /\ \A j \in Junk :
                 LET out == [row |-> j, col |-> j, value |-> j]
                 IN  /\ AgreesWithSolution(game, find_naked_single(game, out))
                     /\ AgreesWithSolution(game, find_hidden_single(game, out))
                     /\ AgreesWithSolution(game, first_empty_from(game, RowMajor(0, 0), out))
            /\ call.op = "get_hint" =>
                 AgreesWithSolution(game, [ret |-> call.ret, row |-> call.row,
                                           col |-> call.col, value |-> call.num]))
    /\ [][HintGetHint => /\ game'.grid = game.grid
                         /\ game'.marks = game.marks
                         /\ game'.cursor_row = game.cursor_row
                         /\ game'.cursor_col = game.cursor_col]_vars

\* get_hint answered on a correct board that holds an entry of the player,
\* where the hidden single strategy finds another cell than the one returned.
C30_Witness ==
    /\ call.op = "get_hint"
    /\ call.ret = 1
    /\ CorrectBoard(game)
    /\ \E p \in Cells : game.given[p[1]][p[2]] = 0 /\ game.grid[p[1]][p[2]] # 0
    /\ \E j \in Junk :
          LET hidden == find_hidden_single(game, [row |-> j, col |-> j, value |-> j])
          IN  hidden.ret = 1 /\ <<hidden.row, hidden.col>> # <<call.row, call.col>>

=============================================================================
